---- MODULE Spec2Model ----
(***************************************************************************)
(* A model of the OpenGov monthly audit report pipeline:                   *)
(*   - timeutil.py : calendar arithmetic, quarter deadlines, reporting     *)
(*                   quarters                                              *)
(*   - orgs.py     : text normalisation and organisation matching          *)
(*   - opengov.py  : year/quarter extraction, the list crawl               *)
(*   - main.py     : quarter status reconciliation, the attachment loop    *)
(*   - state.py    : the persisted set of seen attachment keys             *)
(*                                                                         *)
(* Text is a sequence of characters; a character is the string naming it.  *)
(* The Hangul syllables the code's patterns look for are named "nyeon",    *)
(* "bun" and "gi".  A calendar date is a record [year, month, day]; dates  *)
(* are compared and shifted through their proleptic Gregorian ordinal, as  *)
(* datetime.date does.                                                     *)
(***************************************************************************)
EXTENDS Integers, Sequences, FiniteSets, TLC

(***************************************************************************)
(* Bounds of the model.                                                    *)
(***************************************************************************)
MaxOrgs == 3
MaxDocs == 2

(***************************************************************************)
(* Absent values (Python's None).                                          *)
(***************************************************************************)
NoDate == [year |-> 0, month |-> 0, day |-> 0]
NoInt == 0 - 1
NoMatch == << >>

(***************************************************************************)
(* datetime.date: ordinals.                                                *)
(***************************************************************************)
IsLeap(y) == (y % 4 = 0) /\ ((y % 100 # 0) \/ (y % 400 = 0))

DaysInMonth(y, m) ==
    IF m = 2 THEN (IF IsLeap(y) THEN 29 ELSE 28)
    ELSE IF m \in {4, 6, 9, 11} THEN 30 ELSE 31

RECURSIVE DaysBeforeMonth(_, _)
DaysBeforeMonth(y, m) ==
    IF m <= 1 THEN 0 ELSE DaysBeforeMonth(y, m - 1) + DaysInMonth(y, m - 1)

DaysBeforeYear(y) ==
    (y - 1) * 365 + ((y - 1) \div 4) - ((y - 1) \div 100) + ((y - 1) \div 400)

ToOrdinal(d) == DaysBeforeYear(d.year) + DaysBeforeMonth(d.year, d.month) + d.day

MkDate(y, m, d) == [year |-> y, month |-> m, day |-> d]

\* date(y, m, d) raises ValueError unless MINYEAR <= y <= MAXYEAR
MinYear == 1
MaxYear == 9999
ValidYear(y) == MinYear <= y /\ y <= MaxYear

(***************************************************************************)
(* timeutil.py                                                             *)
(***************************************************************************)
prev_month(when) ==
    IF when.month = 1 THEN [year |-> when.year - 1, month |-> 12]
    ELSE [year |-> when.year, month |-> when.month - 1]

month_range(ym) ==
    [start |-> ToOrdinal(MkDate(ym.year, ym.month, 1)),
     end   |-> IF ym.month = 12 THEN ToOrdinal(MkDate(ym.year + 1, 1, 1))
               ELSE ToOrdinal(MkDate(ym.year, ym.month + 1, 1))]

quarter_end_date(year, quarter) ==
    IF quarter = 1 THEN MkDate(year, 3, 31)
    ELSE IF quarter = 2 THEN MkDate(year, 6, 30)
    ELSE IF quarter = 3 THEN MkDate(year, 9, 30)
    ELSE MkDate(year, 12, 31)

\* the deadline as an ordinal: quarter end + timedelta(days = buffer_days)
quarter_deadline(year, quarter, buffer_days) ==
    ToOrdinal(quarter_end_date(year, quarter)) + buffer_days

\* quarter_end_date raises when date() rejects the year or the quarter is not 1..4
quarter_deadline_raises(year, quarter) ==
    ~ValidYear(year) \/ quarter \notin 1..4

ReportCount == 4

\* the rule of the docstring: only the elapsed quarters of the year
report_quarters_Elapsed(today) ==
    LET cur == ((today.month - 1) \div 3) + 1
        target_year == IF cur = 1 THEN today.year - 1 ELSE today.year
        count == IF cur = 1 THEN 4 ELSE cur - 1
    IN  [q \in 1..count |-> [year |-> target_year, quarter |-> q]]

report_quarters(today) ==
    LET target_year == IF today.month <= 2 THEN today.year - 1 ELSE today.year
    IN  [q \in 1..ReportCount |-> [year |-> target_year, quarter |-> q]]

(***************************************************************************)
(* Characters.                                                             *)
(***************************************************************************)
Digits == {"0", "1", "2", "3", "4", "5", "6", "7", "8", "9"}
LowerLetters == {"a", "b", "d", "e", "f", "l", "m", "n", "o", "p", "r", "s", "t", "x"}
UpperLetters == {"A", "B", "D", "E", "F", "L", "M", "N", "O", "P", "R", "S", "T", "X"}
Hangul == {"nyeon", "bun", "gi"}
Spaces == {" "}

ToLower(c) ==
    CASE c = "A" -> "a" [] c = "B" -> "b" [] c = "D" -> "d" [] c = "E" -> "e"
      [] c = "F" -> "f" [] c = "L" -> "l" [] c = "M" -> "m" [] c = "N" -> "n"
      [] c = "O" -> "o" [] c = "P" -> "p" [] c = "R" -> "r" [] c = "S" -> "s"
      [] c = "T" -> "t" [] c = "X" -> "x"
      [] OTHER -> c

DigitVal(c) ==
    CASE c = "0" -> 0 [] c = "1" -> 1 [] c = "2" -> 2 [] c = "3" -> 3
      [] c = "4" -> 4 [] c = "5" -> 5 [] c = "6" -> 6 [] c = "7" -> 7
      [] c = "8" -> 8 [] c = "9" -> 9

(***************************************************************************)
(* orgs.py                                                                 *)
(***************************************************************************)
KeptByNorm(c) == c \in Digits \cup LowerLetters \cup UpperLetters \cup Hangul

norm_text(s) ==
    LET kept == SelectSeq(s, KeptByNorm)
    IN  [i \in 1..Len(kept) |-> ToLower(kept[i])]

Org(v) == [name |-> v, norm |-> norm_text(v)]

\* Python's  sub in text
Contains(sub, text) ==
    \E i \in 1..(Len(text) - Len(sub) + 1) :
        SubSeq(text, i, i + Len(sub) - 1) = sub

MinNormLen == 4

\* the condition without its length guard
OrgQualifies_NoGuard(org, t) == Contains(org.norm, t)

OrgQualifies(org, t) == Len(org.norm) >= MinNormLen /\ Contains(org.norm, t)

match_org(orgs, text) ==
    LET t == norm_text(text)
        hits == {i \in 1..Len(orgs) : OrgQualifies(orgs[i], t)}
    IN  IF hits = {} THEN NoMatch
        ELSE orgs[CHOOSE i \in hits : \A j \in hits : i <= j].name

(***************************************************************************)
(* opengov.py: extract_year_quarter, the pattern                           *)
(*     (\d{4})\s*nyeon.*?([1-4])\s*bun gi                                   *)
(***************************************************************************)
RECURSIVE SkipSpaces(_, _)
SkipSpaces(t, i) ==
    IF i <= Len(t) /\ t[i] \in Spaces THEN SkipSpaces(t, i + 1) ELSE i

\* the index after "dddd\s*nyeon" starting at i, or 0 when it does not start at i
YearEnd(t, i) ==
    IF i + 3 <= Len(t) /\ (\A k \in i..(i + 3) : t[k] \in Digits)
    THEN LET j == SkipSpaces(t, i + 4)
         IN  IF j <= Len(t) /\ t[j] = "nyeon" THEN j + 1 ELSE 0
    ELSE 0

QuarterAt(t, k) ==
    /\ k <= Len(t)
    /\ t[k] \in {"1", "2", "3", "4"}
    /\ LET j == SkipSpaces(t, k + 1)
       IN  j + 1 <= Len(t) /\ t[j] = "bun" /\ t[j + 1] = "gi"

YQMatches(t, i) ==
    YearEnd(t, i) # 0 /\ \E k \in YearEnd(t, i)..Len(t) : QuarterAt(t, k)

extract_year_quarter(text) ==
    LET starts == {i \in 1..Len(text) : YQMatches(text, i)}
    IN  IF starts = {} THEN <<NoInt, NoInt>>
        ELSE LET i == CHOOSE s \in starts : \A s2 \in starts : s <= s2
                 ks == {k \in YearEnd(text, i)..Len(text) : QuarterAt(text, k)}
                 k == CHOOSE a \in ks : \A b \in ks : a <= b
             IN  << DigitVal(text[i]) * 1000 + DigitVal(text[i + 1]) * 100
                      + DigitVal(text[i + 2]) * 10 + DigitVal(text[i + 3]),
                    DigitVal(text[k]) >>

(***************************************************************************)
(* State.                                                                  *)
(*   cqs*, found, result : one call of compute_quarter_status              *)
(***************************************************************************)
VARIABLES
    cqs,        \* the arguments of the call: orgs, docs, today, buffer_days
    cqs_pc,     \* "loop" (lines 43-63), "fill" (65-78), "done", "raised"
    cqs_i,      \* index of the next document of the loop over docs
    found,      \* main.py:41
    result,     \* main.py:65
    tq_today,   \* the argument of a call of report_quarters
    tq_pc,      \* "call", "done"
    tq_quarters, \* the list report_quarters returns
    mo_args,    \* the arguments of a call of match_org: orgs, text
    mo_pc,      \* "idle", "loop" (orgs.py:34-37), "returned"
    mo_t,       \* orgs.py:34
    mo_i,       \* index of the next organization of the loop of orgs.py:35
    mo_ret,     \* what match_org returned
    site_total, \* the result count the list page shows (NoInt: no counter found)
    fd_args,    \* fetch_docs_all: target_ym, max_pages_fallback, stop_after_empty
    fd_pc,      \* "idle", "probe" (lines 127-143), "loop" (145-184), "returned"
    probe,      \* how the total-count probe ended: "none", "raised", "not_found", "found"
    target_y,   \* opengov.py:127
    total,      \* opengov.py:131
    max_pages,  \* opengov.py:140
    page,       \* the loop variable of opengov.py:148
    empty_streak, \* opengov.py:146
    docs_by_nid,  \* opengov.py:145, in insertion order
    fd_ret,     \* what fetch_docs_all returned: [is_none, docs]
    log,        \* the page requests of the loop so far: [page, kind, sleep]
    first_rows, \* per nid extracted so far, the first row that carried it
    shadowed,   \* some fetched row carried a nid met before, with other data
                \* than the first row of that nid
    m_pc,       \* main: "idle", "start", "crawl", "docs", "atts", "save", "done",
                \*       "aborted" (roster failure), "crashed" (uncaught exception)
    kst_now,    \* main.py:87
    orgs,       \* main.py:91
    seen,       \* main.py:98
    seen_file,  \* the keys in the state file (state.py)
    docs,       \* main.py:103
    month_docs, \* main.py:113
    quarter_status, \* main.py:116
    d_i,        \* index of the next document of the loop over month_docs
    atts,       \* main.py:131
    a_i,        \* index of the next attachment of the loop over atts
    att_reports,  \* main.py:133
    doc_reports,  \* main.py:124
    report_written, \* write_report has run in this run
    downloads,  \* per key, how often download_bytes was called for it in all
                \* runs: 0, 1, or 2 for more than once
    last_try,   \* how the latest attachment was handled
    unsaved     \* some run so far ended without save_seen

cqsVars == <<cqs, cqs_pc, cqs_i, found, result>>
timeVars == <<tq_today, tq_pc, tq_quarters>>
matchVars == <<mo_args, mo_pc, mo_t, mo_i, mo_ret>>
crawlVars == <<site_total, fd_args, fd_pc, probe, target_y, total, max_pages, page,
               empty_streak, docs_by_nid, fd_ret, log, first_rows, shadowed>>
mainVars == <<m_pc, kst_now, orgs, seen, seen_file, docs, month_docs, quarter_status,
              d_i, atts, a_i, att_reports, doc_reports, report_written, downloads,
              last_try, unsaved>>

vars == <<cqs, cqs_pc, cqs_i, found, result, tq_today, tq_pc, tq_quarters,
          mo_args, mo_pc, mo_t, mo_i, mo_ret,
          site_total, fd_args, fd_pc, probe, target_y, total, max_pages, page,
          empty_streak, docs_by_nid, fd_ret, log, first_rows, shadowed,
          m_pc, kst_now, orgs, seen, seen_file, docs, month_docs, quarter_status,
          d_i, atts, a_i, att_reports, doc_reports, report_written, downloads,
          last_try, unsaved>>

(***************************************************************************)
(* Inputs of compute_quarter_status.                                       *)
(***************************************************************************)
TxtMetro == <<"M", "e", "t", "r", "o">>
TxtTron == <<"t", "r", "o", "n">>
TxtAb == <<"a", "b">>
TxtY2025 == <<"2", "0", "2", "5", "nyeon">>
TxtY2024 == <<"2", "0", "2", "4", "nyeon">>
TxtY0000 == <<"0", "0", "0", "0", "nyeon">>
TxtQ(c) == <<c, "bun", "gi">>

OrgNames == {TxtMetro, TxtTron, TxtAb}

\* "Metro 2025nyeon 1bungi"
TitleMetroQ1 == TxtMetro \o <<" ">> \o TxtY2025 \o <<" ">> \o TxtQ("1")
\* "ME-TRON 2025 nyeon 7bungi 1 bungi": both Metro and tron occur in it
TitleMetronQ1 == <<"M", "E", "-", "T", "R", "O", "N", " ">> \o <<"2", "0", "2", "5", " ", "nyeon">>
                    \o <<" ", "7", "bun", "gi", " ", "1", " ", "bun", "gi">>
\* "tron 2024nyeon 4bungi"
TitleTronOld == TxtTron \o <<" ">> \o TxtY2024 \o <<" ">> \o TxtQ("4")
\* "Metro 2025": no quarter
TitleNoQuarter == TxtMetro \o <<" ", "2", "0", "2", "5">>
\* "tron 0000nyeon 1bungi": a year date() rejects
TitleYearZero == TxtTron \o <<" ">> \o TxtY0000 \o <<" ">> \o TxtQ("1")

DocItem(nid, title, pub_date, url) ==
    [nid |-> nid, title |-> title, pub_date |-> pub_date, url |-> url]

StatusDocs ==
    { DocItem(1, TitleMetroQ1, NoDate, "p1"),
      DocItem(2, TitleMetroQ1, MkDate(2025, 4, 30), "p2"),
      DocItem(3, TitleMetroQ1, MkDate(2025, 5, 1), "p3"),
      DocItem(4, TitleMetronQ1, MkDate(2025, 5, 2), "p4"),
      DocItem(5, TitleTronOld, NoDate, "p5"),
      DocItem(6, TitleNoQuarter, MkDate(2025, 4, 1), "p6"),
      DocItem(7, TitleYearZero, NoDate, "p7") }

Todays ==
    { MkDate(2025, 4, 1), MkDate(2025, 5, 1), MkDate(2026, 1, 30) }

BufferChoices == {0, 30}

\* sequences without repetition, of length at most n
InjSeqs(S, n) ==
    UNION { { s \in [1..k -> S] : \A i, j \in 1..k : i # j => s[i] # s[j] } : k \in 0..n }

\* a loaded roster is never empty (orgs.py:25), its names distinct
Rosters ==
    { [i \in 1..Len(s) |-> Org(s[i])] : s \in InjSeqs(OrgNames, MaxOrgs) \ {<< >>} }

\* a crawl returns at most one document per nid
DocLists ==
    { s \in InjSeqs(StatusDocs, MaxDocs) : \A i, j \in 1..Len(s) : i # j => s[i].nid # s[j].nid }

(***************************************************************************)
(* main.py: compute_quarter_status                                         *)
(***************************************************************************)
Key(org, y, q) == <<org, y, q>>

\* lines 52-55
ObservedStatus(d, deadline) ==
    IF d.pub_date = NoDate THEN "OK"
    ELSE IF ToOrdinal(d.pub_date) <= deadline THEN "OK" ELSE "LATE"

\* the last observation of a key wins
MergeStatus_LastWins(f, key, st) ==
    IF key \notin DOMAIN f THEN f @@ (key :> st)
    ELSE [f EXCEPT ![key] = st]

\* lines 59-63
MergeStatus(f, key, st) ==
    IF key \notin DOMAIN f THEN f @@ (key :> st)
    ELSE IF f[key] # "OK" /\ st = "OK" THEN [f EXCEPT ![key] = "OK"]
    ELSE f

\* the deadline day itself counted as overdue
FillStatus_Strict(f, key, today, dl) ==
    IF key \in DOMAIN f THEN f[key]
    ELSE IF ToOrdinal(today) < dl THEN "PENDING" ELSE "MISSING"

\* lines 69-76
FillStatus(f, key, today, dl) ==
    IF key \in DOMAIN f THEN f[key]
    ELSE IF ToOrdinal(today) <= dl THEN "PENDING" ELSE "MISSING"

\* keyed by the normalized form instead of the name
ResultKeys_ByNorm(roster, quarters) ==
    { Key(roster[i].norm, quarters[k].year, quarters[k].quarter) :
        i \in 1..Len(roster), k \in 1..Len(quarters) }

ResultKeys(roster, quarters) ==
    { Key(roster[i].name, quarters[k].year, quarters[k].quarter) :
        i \in 1..Len(roster), k \in 1..Len(quarters) }

\* lines 44-63 for one document: the map after it, or that quarter_deadline raised
ObserveDoc(roster, d, buffer_days, f) ==
    LET org == match_org(roster, d.title)
        yq == extract_year_quarter(d.title)
    IN  IF org = NoMatch \/ yq[1] = NoInt \/ yq[2] = NoInt
        THEN [raised |-> FALSE, found |-> f]
        ELSE IF quarter_deadline_raises(yq[1], yq[2])
        THEN [raised |-> TRUE, found |-> f]
        ELSE [raised |-> FALSE,
              found |-> MergeStatus(f, Key(org, yq[1], yq[2]),
                          ObservedStatus(d, quarter_deadline(yq[1], yq[2], buffer_days)))]

\* lines 65-76
FilledResult(roster, f, today, buffer_days) ==
    [ key \in ResultKeys(roster, report_quarters(today)) |->
        FillStatus(f, key, today, quarter_deadline(key[2], key[3], buffer_days)) ]

\* lines 41-63 over the documents from index i
RECURSIVE FoundFrom(_, _, _, _, _)
FoundFrom(roster, ds, buffer_days, i, f) ==
    IF i > Len(ds) THEN [raised |-> FALSE, found |-> f]
    ELSE LET r == ObserveDoc(roster, ds[i], buffer_days, f)
         IN  IF r.raised THEN r ELSE FoundFrom(roster, ds, buffer_days, i + 1, r.found)

\* the whole call: the mapping returned, or that it raised
compute_quarter_status(roster, ds, today, buffer_days) ==
    LET r == FoundFrom(roster, ds, buffer_days, 1, << >>)
    IN  IF r.raised THEN [raised |-> TRUE, result |-> << >>]
        ELSE [raised |-> FALSE, result |-> FilledResult(roster, r.found, today, buffer_days)]

CqsInit ==
    /\ cqs \in [orgs : Rosters, docs : DocLists, today : Todays,
                buffer_days : BufferChoices]
    /\ cqs_pc = "loop"
    /\ cqs_i = 1
    /\ found = << >>
    /\ result = << >>
    /\ tq_today = NoDate
    /\ tq_pc = "idle"
    /\ tq_quarters = << >>
    /\ mo_args = [orgs |-> << >>, text |-> << >>]
    /\ mo_pc = "idle"
    /\ mo_t = << >>
    /\ mo_i = 1
    /\ mo_ret = NoMatch
    /\ site_total = NoInt
    /\ fd_args = [target_ym |-> [year |-> 0, month |-> 0], max_pages_fallback |-> 0,
                  stop_after_empty |-> 0]
    /\ fd_pc = "idle"
    /\ probe = "none"
    /\ target_y = 0
    /\ total = NoInt
    /\ max_pages = 0
    /\ page = 0
    /\ empty_streak = 0
    /\ docs_by_nid = << >>
    /\ fd_ret = [is_none |-> TRUE, docs |-> << >>]
    /\ log = << >>
    /\ first_rows = << >>
    /\ shadowed = FALSE
    /\ m_pc = "idle"
    /\ kst_now = NoDate
    /\ orgs = << >>
    /\ seen = {}
    /\ seen_file = {}
    /\ docs = << >>
    /\ month_docs = << >>
    /\ quarter_status = << >>
    /\ d_i = 1
    /\ atts = << >>
    /\ a_i = 1
    /\ att_reports = << >>
    /\ doc_reports = << >>
    /\ report_written = FALSE
    /\ downloads = << >>
    /\ last_try = "none"
    /\ unsaved = FALSE

\* one iteration of  for d in docs  (lines 43-63)
CqsDoc ==
    /\ cqs_pc = "loop"
    /\ cqs_i <= Len(cqs.docs)
    /\ LET r == ObserveDoc(cqs.orgs, cqs.docs[cqs_i], cqs.buffer_days, found)
       IN  IF r.raised
           THEN /\ cqs_pc' = "raised"
                /\ UNCHANGED <<cqs_i, found>>
           ELSE /\ found' = r.found
                /\ cqs_i' = cqs_i + 1
                /\ UNCHANGED cqs_pc
    /\ UNCHANGED <<cqs, result, timeVars, matchVars, crawlVars, mainVars>>

\* the loop over docs is exhausted
CqsLoopEnd ==
    /\ cqs_pc = "loop"
    /\ cqs_i > Len(cqs.docs)
    /\ cqs_pc' = "fill"
    /\ UNCHANGED <<cqs, cqs_i, found, result, timeVars, matchVars, crawlVars, mainVars>>

\* lines 65-78
CqsFill ==
    /\ cqs_pc = "fill"
    /\ result' = FilledResult(cqs.orgs, found, cqs.today, cqs.buffer_days)
    /\ cqs_pc' = "done"
    /\ UNCHANGED <<cqs, cqs_i, found, timeVars, matchVars, crawlVars, mainVars>>

CqsNext == CqsDoc \/ CqsLoopEnd \/ CqsFill

SpecStatus == CqsInit /\ [][CqsNext]_vars

(***************************************************************************)
(* timeutil.py: report_quarters on its own.                                *)
(***************************************************************************)
TimeYears == {2024, 2025, 2026}
TimeDays == {1, 15, 28}

TimeInit ==
    /\ tq_today \in { MkDate(y, m, d) : y \in TimeYears, m \in 1..12, d \in TimeDays }
    /\ tq_pc = "call"
    /\ tq_quarters = << >>
    /\ mo_args = [orgs |-> << >>, text |-> << >>]
    /\ mo_pc = "idle"
    /\ mo_t = << >>
    /\ mo_i = 1
    /\ mo_ret = NoMatch
    /\ cqs = [orgs |-> << >>, docs |-> << >>, today |-> NoDate, buffer_days |-> 0]
    /\ cqs_pc = "idle"
    /\ cqs_i = 1
    /\ found = << >>
    /\ result = << >>
    /\ site_total = NoInt
    /\ fd_args = [target_ym |-> [year |-> 0, month |-> 0], max_pages_fallback |-> 0,
                  stop_after_empty |-> 0]
    /\ fd_pc = "idle"
    /\ probe = "none"
    /\ target_y = 0
    /\ total = NoInt
    /\ max_pages = 0
    /\ page = 0
    /\ empty_streak = 0
    /\ docs_by_nid = << >>
    /\ fd_ret = [is_none |-> TRUE, docs |-> << >>]
    /\ log = << >>
    /\ first_rows = << >>
    /\ shadowed = FALSE
    /\ m_pc = "idle"
    /\ kst_now = NoDate
    /\ orgs = << >>
    /\ seen = {}
    /\ seen_file = {}
    /\ docs = << >>
    /\ month_docs = << >>
    /\ quarter_status = << >>
    /\ d_i = 1
    /\ atts = << >>
    /\ a_i = 1
    /\ att_reports = << >>
    /\ doc_reports = << >>
    /\ report_written = FALSE
    /\ downloads = << >>
    /\ last_try = "none"
    /\ unsaved = FALSE

CallReportQuarters ==
    /\ tq_pc = "call"
    /\ tq_quarters' = report_quarters(tq_today)
    /\ tq_pc' = "done"
    /\ UNCHANGED <<tq_today, cqsVars, matchVars, crawlVars, mainVars>>

TimeNext == CallReportQuarters

SpecTime == TimeInit /\ [][TimeNext]_vars

(***************************************************************************)
(* orgs.py: match_org, one step per iteration of its loop                  *)
(***************************************************************************)
\* "a-b.": four characters, two of them kept by norm_text
TxtAbDots == <<"a", "-", "b", ".">>

MatchNames == OrgNames \cup {TxtAbDots}

MatchRosters ==
    { [i \in 1..Len(s) |-> Org(s[i])] : s \in InjSeqs(MatchNames, MaxOrgs) \ {<< >>} }

MatchTexts ==
    { << >>,
      TitleMetronQ1,
      TxtTron \o <<" ">> \o TxtMetro \o <<" ">> \o TxtAb,
      <<"M", "e", "t", " ", "r", "o">>,
      <<"M", "e", "t", "r">>,
      TxtAbDots,
      TitleNoQuarter }

MatchInit ==
    /\ mo_args \in [orgs : MatchRosters, text : MatchTexts]
    /\ mo_pc = "call"
    /\ mo_t = << >>
    /\ mo_i = 1
    /\ mo_ret = NoMatch
    /\ tq_today = NoDate
    /\ tq_pc = "idle"
    /\ tq_quarters = << >>
    /\ cqs = [orgs |-> << >>, docs |-> << >>, today |-> NoDate, buffer_days |-> 0]
    /\ cqs_pc = "idle"
    /\ cqs_i = 1
    /\ found = << >>
    /\ result = << >>
    /\ site_total = NoInt
    /\ fd_args = [target_ym |-> [year |-> 0, month |-> 0], max_pages_fallback |-> 0,
                  stop_after_empty |-> 0]
    /\ fd_pc = "idle"
    /\ probe = "none"
    /\ target_y = 0
    /\ total = NoInt
    /\ max_pages = 0
    /\ page = 0
    /\ empty_streak = 0
    /\ docs_by_nid = << >>
    /\ fd_ret = [is_none |-> TRUE, docs |-> << >>]
    /\ log = << >>
    /\ first_rows = << >>
    /\ shadowed = FALSE
    /\ m_pc = "idle"
    /\ kst_now = NoDate
    /\ orgs = << >>
    /\ seen = {}
    /\ seen_file = {}
    /\ docs = << >>
    /\ month_docs = << >>
    /\ quarter_status = << >>
    /\ d_i = 1
    /\ atts = << >>
    /\ a_i = 1
    /\ att_reports = << >>
    /\ doc_reports = << >>
    /\ report_written = FALSE
    /\ downloads = << >>
    /\ last_try = "none"
    /\ unsaved = FALSE

\* line 34
MatchNormalize ==
    /\ mo_pc = "call"
    /\ mo_t' = norm_text(mo_args.text)
    /\ mo_pc' = "loop"
    /\ UNCHANGED <<mo_args, mo_i, mo_ret, cqsVars, timeVars, crawlVars, mainVars>>

\* lines 35-36, the condition is false: on to the next organization
MatchOrgSkip ==
    /\ mo_pc = "loop"
    /\ mo_i <= Len(mo_args.orgs)
    /\ ~OrgQualifies(mo_args.orgs[mo_i], mo_t)
    /\ mo_i' = mo_i + 1
    /\ UNCHANGED <<mo_args, mo_pc, mo_t, mo_ret, cqsVars, timeVars, crawlVars, mainVars>>

\* lines 36-37
MatchOrgHit ==
    /\ mo_pc = "loop"
    /\ mo_i <= Len(mo_args.orgs)
    /\ OrgQualifies(mo_args.orgs[mo_i], mo_t)
    /\ mo_ret' = mo_args.orgs[mo_i].name
    /\ mo_pc' = "returned"
    /\ UNCHANGED <<mo_args, mo_t, mo_i, cqsVars, timeVars, crawlVars, mainVars>>

\* line 38
MatchNone ==
    /\ mo_pc = "loop"
    /\ mo_i > Len(mo_args.orgs)
    /\ mo_ret' = NoMatch
    /\ mo_pc' = "returned"
    /\ UNCHANGED <<mo_args, mo_t, mo_i, cqsVars, timeVars, crawlVars, mainVars>>

MatchNext == MatchNormalize \/ MatchOrgSkip \/ MatchOrgHit \/ MatchNone

SpecMatch == MatchInit /\ [][MatchNext]_vars

(***************************************************************************)
(* opengov.py: fetch_docs_all                                              *)
(***************************************************************************)
ItemsPerPage == 50

\* math.ceil(total_count / max(1, items_per_page)), at least 1
compute_max_pages(total_count, items_per_page) ==
    LET per == IF items_per_page > 1 THEN items_per_page ELSE 1
        ceil == (total_count + per - 1) \div per
    IN  IF ceil > 1 THEN ceil ELSE 1

\* lines 127-129
SearchYear(ym) == IF ym.month <= 2 THEN ym.year - 1 ELSE ym.year

\* the sleeps of the loop, in tenths of a second
FailDelay == 10
PoliteDelay == 2

\* a row of the list table: the nid of its /public/<nid> link (0: no such link),
\* the link text, the date found in the row text, the link target
Row(nid, title, pub_date, url) ==
    [nid |-> nid, title |-> title, pub_date |-> pub_date, url |-> url]

NoNid == 0

RowUniverse ==
    { Row(1, TitleMetroQ1, MkDate(2025, 4, 30), "p1"),
      Row(1, TitleMetronQ1, NoDate, "p1x"),
      Row(2, TitleTronOld, MkDate(2025, 4, 10), "p2"),
      Row(NoNid, TitleNoQuarter, NoDate, "") }

MaxRows == 2

PageContents == UNION { [1..k -> RowUniverse] : k \in 0..MaxRows }

\* the map that never finds a nid
HasNid_Never(by_nid, nid) == FALSE

HasNid(by_nid, nid) == \E i \in 1..Len(by_nid) : by_nid[i].nid = nid

\* lines 166-182: the rows of one page into the map, first occurrence kept
RECURSIVE AddRows(_, _, _)
AddRows(by_nid, rows, i) ==
    IF i > Len(rows) THEN by_nid
    ELSE LET r == rows[i]
         IN  IF r.nid = NoNid \/ HasNid(by_nid, r.nid) THEN AddRows(by_nid, rows, i + 1)
             ELSE AddRows(Append(by_nid, DocItem(r.nid, r.title, r.pub_date, r.url)),
                          rows, i + 1)

\* the first row per nid, after one more page: a nid met before keeps its row,
\* a new nid gets the topmost row of the page that carries it
FirstRows(fr, rows) ==
    LET new == { rows[i].nid : i \in 1..Len(rows) } \ ({NoNid} \cup DOMAIN fr)
    IN  [n \in DOMAIN fr \cup new |->
            IF n \in DOMAIN fr THEN fr[n]
            ELSE rows[CHOOSE i \in 1..Len(rows) :
                        /\ rows[i].nid = n
                        /\ \A j \in 1..(i - 1) : rows[j].nid # n]]

\* some row of the page is not the first row of its nid
Shadows(fr, rows) ==
    \E i \in 1..Len(rows) : rows[i].nid # NoNid /\ rows[i] # fr[rows[i].nid]

\* the page of the iteration after a failed fetch
AfterFailure_Retry(p) == p

\* lines 153-156: sleep and continue
AfterFailure(p) == p + 1

\* a failed fetch taken as the end of a run of empty pages
StreakAfterFailure_Reset(streak) == 0

\* lines 153-156: the except branch does not touch empty_streak
StreakAfterFailure(streak) == streak

ShouldStop_Late(streak, stop_after_empty) == streak > stop_after_empty

\* line 161
ShouldStop(streak, stop_after_empty) == streak >= stop_after_empty

LogEntry(p, kind, sleep) == [page |-> p, kind |-> kind, sleep |-> sleep]

\* lines 127-143 with fetch_total_count: the page-1 fetch raises
ProbeRaises ==
    /\ fd_pc = "probe"
    /\ target_y' = SearchYear(fd_args.target_ym)
    /\ total' = NoInt
    /\ probe' = "raised"
    /\ fd_ret' = [is_none |-> TRUE, docs |-> << >>]
    /\ fd_pc' = "returned"
    /\ UNCHANGED <<site_total, fd_args, max_pages, page, empty_streak, docs_by_nid, log,
                   first_rows, shadowed>>
    /\ UNCHANGED <<cqsVars, timeVars, matchVars, mainVars>>

\* lines 127-146 with fetch_total_count returning the counter, or None
ProbeReturns ==
    /\ fd_pc = "probe"
    /\ target_y' = SearchYear(fd_args.target_ym)
    /\ total' = site_total
    /\ probe' = IF site_total = NoInt THEN "not_found" ELSE "found"
    /\ max_pages' = IF site_total = NoInt THEN fd_args.max_pages_fallback
                    ELSE compute_max_pages(site_total, ItemsPerPage)
    /\ docs_by_nid' = << >>
    /\ empty_streak' = 0
    /\ page' = 1
    /\ log' = << >>
    /\ first_rows' = << >>
    /\ shadowed' = FALSE
    /\ fd_pc' = "loop"
    /\ UNCHANGED <<site_total, fd_args, fd_ret>>
    /\ UNCHANGED <<cqsVars, timeVars, matchVars, mainVars>>

\* lines 148-156: the fetch of the page raises
PageFails ==
    /\ fd_pc = "loop"
    /\ page <= max_pages
    /\ log' = Append(log, LogEntry(page, "fail", FailDelay))
    /\ UNCHANGED <<first_rows, shadowed>>
    /\ page' = AfterFailure(page)
    /\ empty_streak' = StreakAfterFailure(empty_streak)
    /\ UNCHANGED <<site_total, fd_args, fd_pc, probe, target_y, total, max_pages,
                   docs_by_nid, fd_ret>>
    /\ UNCHANGED <<cqsVars, timeVars, matchVars, mainVars>>

\* lines 148-163 and 186: the page has no rows
PageEmpty ==
    /\ fd_pc = "loop"
    /\ page <= max_pages
    /\ log' = Append(log, LogEntry(page, "empty", 0))
    /\ UNCHANGED <<first_rows, shadowed>>
    /\ empty_streak' = empty_streak + 1
    /\ IF ShouldStop(empty_streak + 1, fd_args.stop_after_empty)
       THEN /\ fd_pc' = "returned"
            /\ fd_ret' = [is_none |-> FALSE, docs |-> docs_by_nid]
            /\ UNCHANGED page
       ELSE /\ page' = page + 1
            /\ UNCHANGED <<fd_pc, fd_ret>>
    /\ UNCHANGED <<site_total, fd_args, probe, target_y, total, max_pages, docs_by_nid>>
    /\ UNCHANGED <<cqsVars, timeVars, matchVars, mainVars>>

\* lines 148-184: the page has rows
PageRows ==
    /\ fd_pc = "loop"
    /\ page <= max_pages
    /\ \E rows \in PageContents \ {<< >>} :
         /\ docs_by_nid' = AddRows(docs_by_nid, rows, 1)
         /\ first_rows' = FirstRows(first_rows, rows)
         /\ shadowed' = (shadowed \/ Shadows(FirstRows(first_rows, rows), rows))
    /\ log' = Append(log, LogEntry(page, "rows", PoliteDelay))
    /\ empty_streak' = 0
    /\ page' = page + 1
    /\ UNCHANGED <<site_total, fd_args, fd_pc, probe, target_y, total, max_pages, fd_ret>>
    /\ UNCHANGED <<cqsVars, timeVars, matchVars, mainVars>>

\* lines 148 and 186: the range is exhausted
LoopExhausted ==
    /\ fd_pc = "loop"
    /\ page > max_pages
    /\ fd_pc' = "returned"
    /\ fd_ret' = [is_none |-> FALSE, docs |-> docs_by_nid]
    /\ UNCHANGED <<site_total, fd_args, probe, target_y, total, max_pages, page,
                   empty_streak, docs_by_nid, log,
                   first_rows, shadowed>>
    /\ UNCHANGED <<cqsVars, timeVars, matchVars, mainVars>>

(***************************************************************************)
(* fetch_docs_all on its own.                                              *)
(***************************************************************************)
CrawlTotals == {NoInt, 0, 50, 51, 250}
CrawlFallbacks == {3}
StopChoices == {1, 2, 3}
CrawlMonths == { [year |-> 2025, month |-> 4], [year |-> 2025, month |-> 2] }

CrawlInit ==
    /\ site_total \in CrawlTotals
    /\ fd_args \in [target_ym : CrawlMonths, max_pages_fallback : CrawlFallbacks,
                    stop_after_empty : StopChoices]
    /\ fd_pc = "probe"
    /\ probe = "none"
    /\ target_y = 0
    /\ total = NoInt
    /\ max_pages = 0
    /\ page = 0
    /\ empty_streak = 0
    /\ docs_by_nid = << >>
    /\ fd_ret = [is_none |-> TRUE, docs |-> << >>]
    /\ log = << >>
    /\ first_rows = << >>
    /\ shadowed = FALSE
    /\ m_pc = "idle"
    /\ kst_now = NoDate
    /\ orgs = << >>
    /\ seen = {}
    /\ seen_file = {}
    /\ docs = << >>
    /\ month_docs = << >>
    /\ quarter_status = << >>
    /\ d_i = 1
    /\ atts = << >>
    /\ a_i = 1
    /\ att_reports = << >>
    /\ doc_reports = << >>
    /\ report_written = FALSE
    /\ downloads = << >>
    /\ last_try = "none"
    /\ unsaved = FALSE
    /\ cqs = [orgs |-> << >>, docs |-> << >>, today |-> NoDate, buffer_days |-> 0]
    /\ cqs_pc = "idle"
    /\ cqs_i = 1
    /\ found = << >>
    /\ result = << >>
    /\ tq_today = NoDate
    /\ tq_pc = "idle"
    /\ tq_quarters = << >>
    /\ mo_args = [orgs |-> << >>, text |-> << >>]
    /\ mo_pc = "idle"
    /\ mo_t = << >>
    /\ mo_i = 1
    /\ mo_ret = NoMatch

CrawlNext ==
    ProbeRaises \/ ProbeReturns \/ PageFails \/ PageEmpty \/ PageRows \/ LoopExhausted

SpecCrawl == CrawlInit /\ [][CrawlNext]_vars

\* the run of fetch_docs_all is never suspended for ever: the loop is sequential
SpecCrawlFair == CrawlInit /\ [][CrawlNext]_vars /\ WF_vars(CrawlNext)

(***************************************************************************)
(* main.py: main, with report.py: is_xlsx and state.py                     *)
(***************************************************************************)
Lower(t) == [i \in 1..Len(t) |-> ToLower(t[i])]

EndsWith(t, suffix) ==
    Len(t) >= Len(suffix) /\ SubSeq(t, Len(t) - Len(suffix) + 1, Len(t)) = suffix

\* report.py:18-19
is_xlsx(filename) == EndsWith(Lower(filename), <<".", "x", "l", "s", "x">>)

\* main.py:80-83
is_doc_in_month(d, range) ==
    /\ d.pub_date # NoDate
    /\ range.start <= ToOrdinal(d.pub_date)
    /\ ToOrdinal(d.pub_date) < range.end

\* main.py:135, the key "{nid}|{url}"
SeenKey(nid, url) == <<nid, url>>

\* state.py:6-11
load_seen(file) == file

\* state.py:13-17
save_seen(s) == s

Attachment(nid, filename, url) == [nid |-> nid, filename |-> filename, url |-> url]

AttReport(a, kind, summary) ==
    [filename |-> a.filename, url |-> a.url, kind |-> kind, summary |-> summary]

\* never treated as processed
SkipsXlsx_Never(key, s) == FALSE

\* main.py:144
SkipsXlsx(key, s) == key \in s

\* marked only when the attachment was processed
SeenAfterTry_OnSuccess(s, key, outcome) == IF outcome = "ok" THEN s \cup {key} ELSE s

\* main.py:165-166: finally
SeenAfterTry(s, key, outcome) == s \cup {key}

\* main.py:148-164
SummaryText(outcome) ==
    IF outcome = "ok" THEN "summary"
    ELSE IF outcome = "download" THEN "failed: download"
    ELSE IF outcome = "parse" THEN "failed: parse"
    ELSE "failed: summarize"

\* download_bytes has been called once more
Counted(n) == IF n >= 2 THEN 2 ELSE n + 1

FileXlsx == <<"r", ".", "x", "l", "s", "x">>
FileUpperXlsx == <<"R", ".", "X", "L", "S", "X">>
FilePdf == <<"r", ".", "p", "d", "f">>

\* what a detail page can list: (filename, url), the urls distinct
\* (fetch_attachments keeps the first link of each url)
DetailPages ==
    { << >>,
      << <<FileXlsx, "a">> >>,
      << <<FilePdf, "a">> >>,
      << <<FilePdf, "b">>, <<FileUpperXlsx, "a">> >> }

AllKeys == { SeenKey(n, u) : n \in {1, 2}, u \in {"a", "b"} }

TryOutcomes == {"ok", "download", "parse", "summarize"}

MainNows == { MkDate(2025, 5, 15), MkDate(2025, 3, 10) }
MainRosters == { <<Org(TxtAb), Org(TxtMetro)>>, <<Org(TxtTron), Org(TxtMetro)>> }
MainTotals == {NoInt, 50}
MainMaxPages == 1
MainStopAfterEmpty == 2
MainBufferDays == 30

MainInit ==
    /\ m_pc = "start"
    /\ kst_now = NoDate
    /\ orgs = << >>
    /\ seen = {}
    /\ seen_file = {}
    /\ docs = << >>
    /\ month_docs = << >>
    /\ quarter_status = << >>
    /\ d_i = 1
    /\ atts = << >>
    /\ a_i = 1
    /\ att_reports = << >>
    /\ doc_reports = << >>
    /\ report_written = FALSE
    /\ downloads = [k \in AllKeys |-> 0]
    /\ last_try = "none"
    /\ unsaved = FALSE
    /\ site_total \in MainTotals
    /\ fd_args = [target_ym |-> [year |-> 0, month |-> 0], max_pages_fallback |-> 0,
                  stop_after_empty |-> 0]
    /\ fd_pc = "idle"
    /\ probe = "none"
    /\ target_y = 0
    /\ total = NoInt
    /\ max_pages = 0
    /\ page = 0
    /\ empty_streak = 0
    /\ docs_by_nid = << >>
    /\ fd_ret = [is_none |-> TRUE, docs |-> << >>]
    /\ log = << >>
    /\ first_rows = << >>
    /\ shadowed = FALSE
    /\ cqs = [orgs |-> << >>, docs |-> << >>, today |-> NoDate, buffer_days |-> 0]
    /\ cqs_pc = "idle"
    /\ cqs_i = 1
    /\ found = << >>
    /\ result = << >>
    /\ tq_today = NoDate
    /\ tq_pc = "idle"
    /\ tq_quarters = << >>
    /\ mo_args = [orgs |-> << >>, text |-> << >>]
    /\ mo_pc = "idle"
    /\ mo_t = << >>
    /\ mo_i = 1
    /\ mo_ret = NoMatch

\* lines 86-91: load_orgs_from_xlsx raises
LoadOrgsFails ==
    /\ m_pc = "start"
    /\ \E now \in MainNows : kst_now' = now
    /\ m_pc' = "aborted"
    /\ unsaved' = TRUE
    /\ UNCHANGED <<orgs, seen, seen_file, docs, month_docs, quarter_status, d_i, atts,
                   a_i, att_reports, doc_reports, report_written, downloads, last_try>>
    /\ UNCHANGED <<cqsVars, timeVars, matchVars, crawlVars>>

\* lines 86-109: the roster loads, the seen keys load, fetch_docs_all is called
LoadOrgsAndSeen ==
    /\ m_pc = "start"
    /\ \E now \in MainNows, roster \in MainRosters :
         /\ kst_now' = now
         /\ orgs' = roster
         /\ fd_args' = [target_ym |-> prev_month(now),
                        max_pages_fallback |-> MainMaxPages,
                        stop_after_empty |-> MainStopAfterEmpty]
    /\ seen' = load_seen(seen_file)
    /\ fd_pc' = "probe"
    /\ m_pc' = "crawl"
    /\ UNCHANGED <<seen_file, docs, month_docs, quarter_status, d_i, atts, a_i,
                   att_reports, doc_reports, report_written, downloads, last_try, unsaved>>
    /\ UNCHANGED <<site_total, probe, target_y, total, max_pages, page, empty_streak,
                   docs_by_nid, fd_ret, log,
                   first_rows, shadowed>>
    /\ UNCHANGED <<cqsVars, timeVars, matchVars>>

\* line 113 when fetch_docs_all returned None: iterating None raises TypeError
CrawlGaveNone ==
    /\ m_pc = "crawl"
    /\ fd_pc = "returned"
    /\ fd_ret.is_none
    /\ m_pc' = "crashed"
    /\ unsaved' = TRUE
    /\ fd_pc' = "idle"
    /\ UNCHANGED <<kst_now, orgs, seen, seen_file, docs, month_docs, quarter_status, d_i,
                   atts, a_i, att_reports, doc_reports, report_written, downloads,
                   last_try>>
    /\ UNCHANGED <<site_total, fd_args, probe, target_y, total, max_pages, page,
                   empty_streak, docs_by_nid, fd_ret, log,
                   first_rows, shadowed>>
    /\ UNCHANGED <<cqsVars, timeVars, matchVars>>

\* lines 103-124 when fetch_docs_all returned a list
CrawlGaveDocs ==
    /\ m_pc = "crawl"
    /\ fd_pc = "returned"
    /\ ~fd_ret.is_none
    /\ docs' = fd_ret.docs
    /\ month_docs' = SelectSeq(fd_ret.docs,
                               LAMBDA d : is_doc_in_month(d, month_range(prev_month(kst_now))))
    /\ LET qs == compute_quarter_status(orgs, fd_ret.docs, kst_now, MainBufferDays)
       IN  IF qs.raised
           THEN /\ m_pc' = "crashed"
                /\ unsaved' = TRUE
                /\ UNCHANGED quarter_status
           ELSE /\ m_pc' = "docs"
                /\ quarter_status' = qs.result
                /\ UNCHANGED unsaved
    /\ doc_reports' = << >>
    /\ d_i' = 1
    /\ fd_pc' = "idle"
    /\ probe' = "none"
    /\ total' = NoInt
    /\ max_pages' = 0
    /\ page' = 0
    /\ empty_streak' = 0
    /\ docs_by_nid' = << >>
    /\ fd_ret' = [is_none |-> TRUE, docs |-> << >>]
    /\ log' = << >>
    /\ first_rows' = << >>
    /\ shadowed' = FALSE
    /\ UNCHANGED <<kst_now, orgs, seen, seen_file, atts, a_i, att_reports,
                   report_written, downloads, last_try>>
    /\ UNCHANGED <<site_total, fd_args, target_y>>
    /\ UNCHANGED <<cqsVars, timeVars, matchVars>>

\* lines 126-129: the document matches no organization
DocWithoutOrg ==
    /\ m_pc = "docs"
    /\ d_i <= Len(month_docs)
    /\ match_org(orgs, month_docs[d_i].title) = NoMatch
    /\ d_i' = d_i + 1
    /\ UNCHANGED <<m_pc, kst_now, orgs, seen, seen_file, docs, month_docs, quarter_status,
                   atts, a_i, att_reports, doc_reports, report_written, downloads,
                   last_try, unsaved>>
    /\ UNCHANGED <<cqsVars, timeVars, matchVars, crawlVars>>

\* lines 126-131: fetch_attachments raises (the detail page fetch fails)
FetchAttachmentsFails ==
    /\ m_pc = "docs"
    /\ d_i <= Len(month_docs)
    /\ match_org(orgs, month_docs[d_i].title) # NoMatch
    /\ m_pc' = "crashed"
    /\ unsaved' = TRUE
    /\ UNCHANGED <<kst_now, orgs, seen, seen_file, docs, month_docs, quarter_status, d_i,
                   atts, a_i, att_reports, doc_reports, report_written, downloads,
                   last_try>>
    /\ UNCHANGED <<cqsVars, timeVars, matchVars, crawlVars>>

\* lines 126-133: fetch_attachments returns the links of the detail page
FetchAttachments ==
    /\ m_pc = "docs"
    /\ d_i <= Len(month_docs)
    /\ match_org(orgs, month_docs[d_i].title) # NoMatch
    /\ \E links \in DetailPages :
         atts' = [i \in 1..Len(links) |->
                    Attachment(month_docs[d_i].nid, links[i][1], links[i][2])]
    /\ a_i' = 1
    /\ att_reports' = << >>
    /\ m_pc' = "atts"
    /\ UNCHANGED <<kst_now, orgs, seen, seen_file, docs, month_docs, quarter_status, d_i,
                   doc_reports, report_written, downloads, last_try, unsaved>>
    /\ UNCHANGED <<cqsVars, timeVars, matchVars, crawlVars>>

\* lines 134-141: not a spreadsheet
HandleUnsupported ==
    /\ m_pc = "atts"
    /\ a_i <= Len(atts)
    /\ ~is_xlsx(atts[a_i].filename)
    /\ att_reports' = Append(att_reports, AttReport(atts[a_i], "unsupported", ""))
    /\ seen' = seen \cup {SeenKey(month_docs[d_i].nid, atts[a_i].url)}
    /\ last_try' = "unsupported"
    /\ a_i' = a_i + 1
    /\ UNCHANGED <<m_pc, kst_now, orgs, seen_file, docs, month_docs, quarter_status, d_i,
                   atts, doc_reports, report_written, downloads, unsaved>>
    /\ UNCHANGED <<cqsVars, timeVars, matchVars, crawlVars>>

\* lines 134-146: a spreadsheet whose key is in seen
HandleSeenXlsx ==
    /\ m_pc = "atts"
    /\ a_i <= Len(atts)
    /\ is_xlsx(atts[a_i].filename)
    /\ SkipsXlsx(SeenKey(month_docs[d_i].nid, atts[a_i].url), seen)
    /\ att_reports' = Append(att_reports, AttReport(atts[a_i], "xlsx", ""))
    /\ last_try' = "seen"
    /\ a_i' = a_i + 1
    /\ UNCHANGED <<m_pc, kst_now, orgs, seen, seen_file, docs, month_docs, quarter_status,
                   d_i, atts, doc_reports, report_written, downloads, unsaved>>
    /\ UNCHANGED <<cqsVars, timeVars, matchVars, crawlVars>>

\* lines 134-168: a spreadsheet not in seen: download, parse, summarize, of
\* which one may raise
HandleNewXlsx ==
    /\ m_pc = "atts"
    /\ a_i <= Len(atts)
    /\ is_xlsx(atts[a_i].filename)
    /\ ~SkipsXlsx(SeenKey(month_docs[d_i].nid, atts[a_i].url), seen)
    /\ \E outcome \in TryOutcomes :
         LET key == SeenKey(month_docs[d_i].nid, atts[a_i].url)
         IN  /\ downloads' = [downloads EXCEPT ![key] = Counted(@)]
             /\ seen' = SeenAfterTry(seen, key, outcome)
             /\ att_reports' = Append(att_reports,
                                      AttReport(atts[a_i], "xlsx", SummaryText(outcome)))
             /\ last_try' = outcome
    /\ a_i' = a_i + 1
    /\ UNCHANGED <<m_pc, kst_now, orgs, seen_file, docs, month_docs, quarter_status, d_i,
                   atts, doc_reports, report_written, unsaved>>
    /\ UNCHANGED <<cqsVars, timeVars, matchVars, crawlVars>>

\* lines 170-179: the attachments of the document are done
EndDoc ==
    /\ m_pc = "atts"
    /\ a_i > Len(atts)
    /\ LET d == month_docs[d_i]
       IN  doc_reports' = Append(doc_reports,
                [org |-> match_org(orgs, d.title), nid |-> d.nid, title |-> d.title,
                 pub_date |-> d.pub_date, doc_url |-> d.url, attachments |-> att_reports])
    /\ d_i' = d_i + 1
    /\ m_pc' = "docs"
    /\ UNCHANGED <<kst_now, orgs, seen, seen_file, docs, month_docs, quarter_status, atts,
                   a_i, att_reports, report_written, downloads, last_try, unsaved>>
    /\ UNCHANGED <<cqsVars, timeVars, matchVars, crawlVars>>

\* lines 181-191: the report is built and written
WriteReport ==
    /\ m_pc = "docs"
    /\ d_i > Len(month_docs)
    /\ report_written' = TRUE
    /\ m_pc' = "save"
    /\ UNCHANGED <<kst_now, orgs, seen, seen_file, docs, month_docs, quarter_status, d_i,
                   atts, a_i, att_reports, doc_reports, downloads, last_try, unsaved>>
    /\ UNCHANGED <<cqsVars, timeVars, matchVars, crawlVars>>

\* lines 193-194
SaveSeen ==
    /\ m_pc = "save"
    /\ seen_file' = save_seen(seen)
    /\ m_pc' = "done"
    /\ UNCHANGED <<kst_now, orgs, seen, docs, month_docs, quarter_status, d_i, atts, a_i,
                   att_reports, doc_reports, report_written, downloads, last_try, unsaved>>
    /\ UNCHANGED <<cqsVars, timeVars, matchVars, crawlVars>>

\* the process has ended and the next scheduled run starts
NewRun ==
    /\ m_pc \in {"done", "aborted", "crashed"}
    /\ m_pc' = "start"
    /\ kst_now' = NoDate
    /\ orgs' = << >>
    /\ seen' = {}
    /\ docs' = << >>
    /\ month_docs' = << >>
    /\ quarter_status' = << >>
    /\ d_i' = 1
    /\ atts' = << >>
    /\ a_i' = 1
    /\ att_reports' = << >>
    /\ doc_reports' = << >>
    /\ report_written' = FALSE
    /\ last_try' = "none"
    /\ fd_args' = [target_ym |-> [year |-> 0, month |-> 0], max_pages_fallback |-> 0,
                   stop_after_empty |-> 0]
    /\ fd_pc' = "idle"
    /\ probe' = "none"
    /\ target_y' = 0
    /\ total' = NoInt
    /\ max_pages' = 0
    /\ page' = 0
    /\ empty_streak' = 0
    /\ docs_by_nid' = << >>
    /\ fd_ret' = [is_none |-> TRUE, docs |-> << >>]
    /\ log' = << >>
    /\ first_rows' = << >>
    /\ shadowed' = FALSE
    /\ UNCHANGED <<seen_file, downloads, unsaved, site_total>>
    /\ UNCHANGED <<cqsVars, timeVars, matchVars>>

Next ==
    \/ LoadOrgsFails \/ LoadOrgsAndSeen
    \/ ProbeRaises \/ ProbeReturns \/ PageFails \/ PageEmpty \/ PageRows \/ LoopExhausted
    \/ CrawlGaveNone \/ CrawlGaveDocs
    \/ DocWithoutOrg \/ FetchAttachmentsFails \/ FetchAttachments
    \/ HandleUnsupported \/ HandleSeenXlsx \/ HandleNewXlsx \/ EndDoc
    \/ WriteReport \/ SaveSeen \/ NewRun

Spec == MainInit /\ [][Next]_vars

(***************************************************************************)
(* Claims.                                                                 *)
(***************************************************************************)
NoKey == << >>

\* the key a document is observed under, from its title alone
ObsKeyOf(d) ==
    LET org == match_org(cqs.orgs, d.title)
        yq == extract_year_quarter(d.title)
    IN  IF org = NoMatch \/ yq[1] = NoInt \/ yq[2] = NoInt THEN NoKey
        ELSE Key(org, yq[1], yq[2])

OnTime(d, k) ==
    \/ d.pub_date = NoDate
    \/ ToOrdinal(d.pub_date) <= ToOrdinal(quarter_end_date(k[2], k[3])) + cqs.buffer_days

MergedDocs == { cqs.docs[i] : i \in 1..(cqs_i - 1) }

\* C1: whatever the order of the documents, after any number of them has been
\* merged the status of each observed (organization, year, quarter) key is OK
\* exactly when some merged document of that key has no publish date or was
\* published by the quarter's deadline, and LATE otherwise; so the merged value
\* does not depend on the order and an OK is never undone by a later LATE.
C1_MergeIsAnyOK ==
    cqs_pc \in {"loop", "fill", "done"} =>
        LET keys == { ObsKeyOf(d) : d \in MergedDocs } \ {NoKey}
        IN  /\ DOMAIN found = keys
            /\ \A k \in keys :
                 found[k] = IF \E d \in MergedDocs : ObsKeyOf(d) = k /\ OnTime(d, k)
                            THEN "OK" ELSE "LATE"

\* a LATE document first and an on-time document of the same key after it
C1_Witness ==
    /\ cqs_pc = "done"
    /\ \E i, j \in 1..Len(cqs.docs) :
         /\ i < j
         /\ ObsKeyOf(cqs.docs[i]) # NoKey
         /\ ObsKeyOf(cqs.docs[i]) = ObsKeyOf(cqs.docs[j])
         /\ ~OnTime(cqs.docs[i], ObsKeyOf(cqs.docs[i]))
         /\ OnTime(cqs.docs[j], ObsKeyOf(cqs.docs[j]))
         /\ found[ObsKeyOf(cqs.docs[i])] = "OK"
         /\ result[ObsKeyOf(cqs.docs[i])] = "OK"

TargetYearOf(today) == IF today.month <= 2 THEN today.year - 1 ELSE today.year

\* C2: the mapping compute_quarter_status returns has exactly the keys
\* (name, targetYear, q) for every organization of the roster and q in 1..4:
\* four keys per organization, none for another year or organization.
C2_ResultKeysExact ==
    cqs_pc = "done" =>
        /\ DOMAIN result =
             { <<cqs.orgs[i].name, TargetYearOf(cqs.today), q>> :
                 i \in 1..Len(cqs.orgs), q \in 1..4 }
        /\ Cardinality(DOMAIN result) = 4 * Len(cqs.orgs)

\* three organizations, twelve keys, and an observed key left out of the result
C2_Witness ==
    /\ cqs_pc = "done"
    /\ Len(cqs.orgs) = 3
    /\ Cardinality(DOMAIN result) = 12
    /\ \E k \in DOMAIN found : k \notin DOMAIN result

\* C3: a pair (organization, reporting quarter) no document is observed under
\* gets PENDING when today <= quarter end + buffer days and MISSING when today is
\* later, never OK or LATE.
C3_UncoveredPendingOrMissing ==
    cqs_pc = "done" =>
        LET y == TargetYearOf(cqs.today)
            covered == { ObsKeyOf(cqs.docs[n]) : n \in 1..Len(cqs.docs) }
            now == ToOrdinal(cqs.today)
        IN  \A i \in 1..Len(cqs.orgs), q \in 1..4 :
                LET k == <<cqs.orgs[i].name, y, q>>
                IN  k \notin covered =>
                        /\ k \in DOMAIN result
                        /\ result[k] =
                             IF now <= ToOrdinal(quarter_end_date(y, q)) + cqs.buffer_days
                             THEN "PENDING" ELSE "MISSING"

\* buffer 30, Q1 2025 uncovered: PENDING on 2025-04-01; and Q4 2025 is still
\* PENDING on its deadline day 2026-01-30 while Q1..Q3 are MISSING
C3_Witness ==
    /\ cqs_pc = "done"
    /\ cqs.buffer_days = 30
    /\ cqs.today = MkDate(2026, 1, 30)
    /\ \E i \in 1..Len(cqs.orgs) :
         /\ \A n \in 1..Len(cqs.docs) : ObsKeyOf(cqs.docs[n]) = NoKey
         /\ Len(cqs.docs) > 0
         /\ result[<<cqs.orgs[i].name, 2025, 4>>] = "PENDING"
         /\ result[<<cqs.orgs[i].name, 2025, 1>>] = "MISSING"

RECURSIVE TrailingEmpty(_)
TrailingEmpty(l) ==
    IF Len(l) = 0 \/ l[Len(l)].kind # "empty" THEN 0
    ELSE 1 + TrailingEmpty(SubSeq(l, 1, Len(l) - 1))

C4_Safe ==
    /\ \A i \in 1..Len(log) : log[i].page = i
    /\ probe # "raised" => Len(log) <= max_pages
    /\ (Len(log) > 0 /\ TrailingEmpty(log) >= fd_args.stop_after_empty)
          => fd_pc = "returned"

\* C4: the loop requests pages 1, 2, 3, ... in increasing order, at most
\* max_pages of them; once stop_after_empty zero-row pages in a row have been
\* seen the loop has ended and no further page is ever requested; and every
\* call of fetch_docs_all returns.
C4_CrawlStopsAndTerminates ==
    /\ []C4_Safe
    /\ [][(Len(log) > 0 /\ TrailingEmpty(log) >= fd_args.stop_after_empty)
            => log' = log]_vars
    /\ <>(fd_pc = "returned")

\* pages 3 and 4 empty with stop_after_empty = 2 and a budget of 5 pages: page 4
\* is the last request
C4_Witness ==
    /\ fd_pc = "returned"
    /\ fd_args.stop_after_empty = 2
    /\ max_pages = 5
    /\ Len(log) = 4
    /\ log[2].kind = "rows"
    /\ log[3].kind = "empty"
    /\ log[4].kind = "empty"

\* C5: a failed probe, raised or counter not found, still leads to the loop
\* run with max_pages = max_pages_fallback and to a list returned; a probe that
\* yields a total gives max_pages = ceil(total / 50), at least 1.
C5_ProbeFailureFallsBack ==
    fd_pc = "returned" =>
        /\ ~fd_ret.is_none
        /\ probe \in {"raised", "not_found"} => max_pages = fd_args.max_pages_fallback
        /\ probe = "found" =>
             /\ max_pages >= 1
             /\ max_pages * ItemsPerPage >= total
             /\ (max_pages - 1) * ItemsPerPage < total \/ max_pages = 1

\* C6 as stated: a page whose fetch failed is requested once more before the
\* loop moves on or ends.
C6_FailedPageRequestedAgain ==
    \A i \in 1..Len(log) :
        (log[i].kind = "fail" /\ (i = 1 \/ log[i - 1].page # log[i].page)) =>
            /\ i < Len(log) => log[i + 1].page = log[i].page
            /\ i = Len(log) => fd_pc # "returned"

\* C6 amended: a page whose fetch failed is not requested again: after the
\* fixed delay the loop goes on to the next page index (or ends with the
\* budget), every page is requested at most once, and fetch_docs_all still
\* returns a list.
C6_FailedPageSkipped ==
    /\ \A i, j \in 1..Len(log) : i # j => log[i].page # log[j].page
    /\ \A i \in 1..Len(log) :
         log[i].kind = "fail" =>
            /\ log[i].sleep = FailDelay
            /\ i < Len(log) => log[i + 1].page = log[i].page + 1
            /\ (i = Len(log) /\ fd_pc = "loop") => page = log[i].page + 1
            /\ fd_pc = "returned" => ~fd_ret.is_none

\* page 1 failed, page 2 was requested next, and the crawl returned its list
C6_Witness ==
    /\ fd_pc = "returned"
    /\ ~fd_ret.is_none
    /\ Len(log) >= 2
    /\ log[1].kind = "fail"
    /\ log[2].page = 2
    /\ Len(fd_ret.docs) > 0

\* one attachment is handled in this step
HandlesAttachment == m_pc = "atts" /\ a_i <= Len(atts) /\ a_i' = a_i + 1

CurrentKey == <<atts[a_i].nid, atts[a_i].url>>

LastReport(reports) == reports[Len(reports)]

C7_SeenXlsxSkipped ==
    (HandlesAttachment /\ is_xlsx(atts[a_i].filename) /\ CurrentKey \in seen) =>
        /\ downloads' = downloads
        /\ Len(att_reports') = Len(att_reports) + 1
        /\ LastReport(att_reports') =
             [filename |-> atts[a_i].filename, url |-> atts[a_i].url,
              kind |-> "xlsx", summary |-> ""]

\* C7: a spreadsheet attachment whose key is in the seen set is reported as
\* xlsx with an empty summary and nothing is downloaded for it; and as long as
\* every run so far has saved the seen set, no key has been downloaded more than
\* once over all runs.
C7_AtMostOneDownload ==
    /\ [][C7_SeenXlsxSkipped]_vars
    /\ [](~unsaved => \A k \in AllKeys : downloads[k] <= 1)

\* a spreadsheet downloaded in an earlier, saved run is skipped in this run
C7_Witness ==
    /\ m_pc = "atts"
    /\ ~unsaved
    /\ last_try = "seen"
    /\ Len(att_reports) > 0
    /\ LastReport(att_reports).kind = "xlsx"
    /\ LastReport(att_reports).summary = ""
    /\ \E k \in seen_file : k[2] = LastReport(att_reports).url /\ downloads[k] = 1

C8_HandledIsSeen ==
    HandlesAttachment =>
        /\ CurrentKey \in seen'
        /\ m_pc' = "atts"
        /\ last_try' \in {"download", "parse", "summarize"} =>
             /\ LastReport(att_reports').kind = "xlsx"
             /\ LastReport(att_reports').summary \in
                  {"failed: download", "failed: parse", "failed: summarize"}

\* C8: within a run no key leaves the seen set, and once an attachment has been
\* handled (unsupported, processed, or failed in download, parse or summarize)
\* its key is in the seen set, a failure is reported as the failure notice, and
\* the run goes on with the next attachment.
C8_SeenGrowsAndCoversHandled ==
    /\ [][m_pc' # "start" => seen \subseteq seen']_vars
    /\ [][C8_HandledIsSeen]_vars

\* a run that went on after a failed download, reported the failure and saved
\* the key
C8_Witness ==
    /\ m_pc = "done"
    /\ report_written
    /\ \E i \in 1..Len(doc_reports) :
         \E j \in 1..Len(doc_reports[i].attachments) :
            /\ doc_reports[i].attachments[j].summary = "failed: download"
            /\ <<doc_reports[i].nid, doc_reports[i].attachments[j].url>> \in seen_file
    /\ \E i \in 1..Len(doc_reports) :
         \E j \in 1..Len(doc_reports[i].attachments) :
            doc_reports[i].attachments[j].kind = "unsupported"

\* C9: a run whose roster loaded ends only after the report was written and the
\* seen set saved, whatever else failed.
C9_LoadedRosterRunWritesReport ==
    (m_pc \in {"done", "crashed", "aborted"} /\ Len(orgs) > 0) =>
        /\ m_pc = "done"
        /\ report_written
        /\ seen_file = seen

\* the positions of the roster whose organization has a normalized name of at
\* least four characters that occurs in the normalized text
Qualifying(roster, text) ==
    { i \in 1..Len(roster) :
        /\ Len(norm_text(roster[i].name)) >= 4
        /\ \E k \in 0..Len(norm_text(text)) :
             /\ k + Len(norm_text(roster[i].name)) <= Len(norm_text(text))
             /\ \A j \in 1..Len(norm_text(roster[i].name)) :
                  norm_text(text)[k + j] = norm_text(roster[i].name)[j] }

\* C11: match_org returns the name of the first organization in roster order
\* whose normalized name has at least four characters and occurs in the
\* normalized text, and no match when there is none; so an organization with a
\* shorter normalized name is never returned, and of two qualifying
\* organizations the one earlier in the roster is returned.
C11_FirstQualifyingOrg ==
    mo_pc = "returned" =>
        LET q == Qualifying(mo_args.orgs, mo_args.text)
        IN  /\ q = {} => mo_ret = NoMatch
            /\ q # {} => /\ mo_ret # NoMatch
                         /\ \E i \in q : /\ \A j \in q : i <= j
                                         /\ mo_ret = mo_args.orgs[i].name
            /\ mo_ret # NoMatch => Len(norm_text(mo_ret)) >= 4
            /\ mo_ret = match_org(mo_args.orgs, mo_args.text)

\* a short name that occurs in the text stands first in the roster, two
\* qualifying organizations follow it, and the earlier of the two is returned
\* although the later one occurs earlier in the text
C11_Witness ==
    /\ mo_pc = "returned"
    /\ Len(mo_args.orgs) = 3
    /\ Len(mo_args.orgs[1].norm) < 4
    /\ Contains(mo_args.orgs[1].norm, mo_t)
    /\ Qualifying(mo_args.orgs, mo_args.text) = {2, 3}
    /\ mo_args.orgs[2].name = TxtMetro
    /\ mo_args.text[1] = "t"
    /\ mo_ret = TxtMetro

\* a list of documents holds exactly one document for each nid extracted from
\* the fetched rows, with the title, publish date and url of the first row that
\* carried the nid, and nothing for rows without a nid
DedupedFirstSeen(ds) ==
    /\ \A i, j \in 1..Len(ds) : i # j => ds[i].nid # ds[j].nid
    /\ { ds[i].nid : i \in 1..Len(ds) } = DOMAIN first_rows
    /\ NoNid \notin DOMAIN first_rows
    /\ \A i \in 1..Len(ds) :
         /\ ds[i].nid \in DOMAIN first_rows
         /\ first_rows[ds[i].nid].nid = ds[i].nid
         /\ ds[i].title = first_rows[ds[i].nid].title
         /\ ds[i].pub_date = first_rows[ds[i].nid].pub_date
         /\ ds[i].url = first_rows[ds[i].nid].url

\* C12: after any sequence of fetched pages the document map, and the list
\* fetch_docs_all returns, hold at most one document per identifier, one for
\* every identifier some fetched row carried, each with the title, publish
\* date and url of the identifier's first occurrence in page order then row
\* order; rows without an identifier add nothing.
C12_OneDocPerNidFirstWins ==
    /\ fd_pc = "loop" => DedupedFirstSeen(docs_by_nid)
    /\ (fd_pc = "returned" /\ ~fd_ret.is_none) => DedupedFirstSeen(fd_ret.docs)

\* both rows of nid 1 were fetched and a row of nid 2, with a failed fetch
\* among the requests; the list returned has two documents and the one of
\* nid 1 carries the data of the row that came first
C12_Witness ==
    /\ fd_pc = "returned"
    /\ ~fd_ret.is_none
    /\ shadowed
    /\ Len(fd_ret.docs) = 2
    /\ \E i \in 1..2 : /\ fd_ret.docs[i].nid = 1
                       /\ fd_ret.docs[i].title = TitleMetronQ1
                       /\ fd_ret.docs[i].url = "p1x"
    /\ \E i \in 1..Len(log) : log[i].kind = "fail"

\* the zero-row pages of a request log that no page with rows follows
EmptySinceRows(l) ==
    Cardinality({ i \in 1..Len(l) :
                    /\ l[i].kind = "empty"
                    /\ \A j \in i..Len(l) : l[j].kind # "rows" })

\* one more request of the pagination loop has been made in this step
LoopRequest == fd_pc = "loop" /\ Len(log') = Len(log) + 1

\* C13: in the pagination loop a page whose fetch fails changes neither the
\* empty-streak counter nor the document map; only a fetched page without rows
\* increments the counter, by one, and only a fetched page with rows sets it
\* to zero; so the counter is the number of zero-row pages since the last page
\* with rows, failed fetches in between not counted and not ending the streak.
C13_FailureLeavesStreakAndDocs ==
    /\ [][LoopRequest =>
            LET kind == log'[Len(log')].kind
            IN  /\ kind = "fail" => /\ empty_streak' = empty_streak
                                    /\ docs_by_nid' = docs_by_nid
                /\ kind = "empty" => /\ empty_streak' = empty_streak + 1
                                     /\ docs_by_nid' = docs_by_nid
                /\ kind = "rows" => empty_streak' = 0
                /\ empty_streak' > empty_streak => kind = "empty"
                /\ empty_streak' < empty_streak => kind = "rows"]_vars
    /\ [](fd_pc \in {"loop", "returned"} /\ probe # "raised"
            => empty_streak = EmptySinceRows(log))

\* a page with rows, an empty page, a failed fetch and an empty page: with
\* stop_after_empty = 2 the second empty page ends a crawl of five pages
C13_Witness ==
    /\ fd_pc = "returned"
    /\ fd_args.stop_after_empty = 2
    /\ max_pages = 5
    /\ Len(log) = 4
    /\ log[1].kind = "rows"
    /\ log[2].kind = "empty"
    /\ log[3].kind = "fail"
    /\ log[4].kind = "empty"
    /\ empty_streak = 2
    /\ Len(docs_by_nid) > 0

\* C14: in every run the year fetch_docs_all searches for (the year of the
\* previous month, one less when that month is January or February) is the
\* year of the reporting quarters of the same run (the year of now, one less
\* when now is in January or February), so every key of the status table is a
\* key of the year that was crawled.
C14_SearchYearIsReportYear ==
    /\ (m_pc \in {"crawl", "docs", "atts", "save", "done", "crashed"} /\ probe # "none")
          => target_y = report_quarters(kst_now)[1].year
    /\ (m_pc \in {"docs", "atts", "save", "done"} /\ quarter_status # << >>)
          => \A k \in DOMAIN quarter_status : k[2] = target_y

\* the two years for the times of report_quarters on its own: they differ in
\* March and in no other month
C14_YearsDifferOnlyInMarch ==
    tq_pc = "done" =>
        (SearchYear(prev_month(tq_today)) = tq_quarters[1].year <=> tq_today.month # 3)

====
